---- MODULE Spec2Model ----
(***************************************************************************)
(* Model of the todo backend (Express app with an in-memory store): the    *)
(* module-level state `todos` / `nextId` and the four route handlers       *)
(* GET /api/todos, POST /api/todos, DELETE /api/todos/:id, GET /api/health.*)
(* JavaScript strings are sequences of one-character strings, so that      *)
(* String.prototype.trim and parseInt are computed, not assumed.           *)
(***************************************************************************)
EXTENDS Integers, Sequences, FiniteSets, TLC

VARIABLES
    todos,      \* the array `todos`
    nextId,     \* the counter `nextId`
    clock,      \* the last value read from the system clock (ms)
    req,        \* the request handled last
    resp,       \* the response sent last
    created,    \* history: every record ever pushed, in push order
    deleted,    \* history: ids of the records removed by splice
    boots,      \* how often the process was restarted
    lost,       \* history: the number of records the last restart discarded
    sent,       \* per client, the last request it sent
    answers,    \* per client, the response to its last request
    together,   \* the clients whose requests arrived before any was handled
    before,     \* history: the ids stored when those requests arrived
    active,     \* the replica whose store is in todos and nextId
    parked,     \* per replica, its store while another replica is active
    stacks,     \* per CloudFormation stack of the account, its status
    images,     \* the image tags in the ECR repository
    script,     \* the script that is running, "" when none is
    line,       \* the position of the running script in its program
    args,       \* the arguments of the command line that was started
    envFile,    \* whether the file ../.env exists
    exitStatus, \* the exit status of the command line that ended last
    createLog,  \* history: the stacks create-stack was issued for in this run
    runs,       \* how many command lines were started
    faults,     \* history: whether a call of this command line failed
    fresh,      \* history: whether this command line started on an empty account
    deleteLog,  \* history: the stacks delete-stack was issued for in this run
    pushLog,    \* history: the tags docker push sent in this run
    taskEnv,    \* the environment the backend task definition gives its container
    uiTodos,    \* the React state `todos` of the browser client
    uiNewTodo,  \* the React state `newTodo`
    uiLoading,  \* the React state `loading`
    uiError,    \* the React state `error`
    uiSuccess,  \* the React state `success`
    mounted,    \* whether the component App is mounted
    calls       \* the runs of fetchTodos, addTodo and deleteTodo, in start order

\* the store of one process and its last exchange
storeVars == <<todos, nextId, clock, req, resp, created, deleted>>
lifeVars == <<boots, lost>>
clientVars == <<sent, answers, together, before>>
replicaVars == <<active, parked>>
uiVars ==
    <<uiTodos, uiNewTodo, uiLoading, uiError, uiSuccess, mounted, calls>>
backendVars == <<storeVars, lifeVars, clientVars, replicaVars, uiVars>>
deployVars ==
    <<stacks, images, script, line, args, envFile, exitStatus, createLog,
      runs, faults, fresh, deleteLog, pushLog, taskEnv>>

vars == <<backendVars, deployVars, uiVars>>

----------------------------------------------------------------------------
(* Bounds of the model *)

\* POST succeeds in the model only while nextId <= MaxId
MaxId == 3
\* the clock reads values in 0 .. MaxTime
MaxTime == 1
\* the process is restarted at most MaxBoots times
MaxBoots == 1
\* the number of clients that send requests at the same time
NumClients == 2
\* the backend service is created with DesiredCount=2
NumReplicas == 2
\* the number of command lines started on the account
MaxRuns == 4
\* the number of stacks whose deletion fails is at most MaxFailed
MaxFailed == 1
\* the number of requests the browser client starts
MaxCalls == 4

Clients == 1..NumClients
Replicas == 1..NumReplicas

----------------------------------------------------------------------------
(* JavaScript strings *)

\* WhiteSpace and LineTerminator code points removed by String.prototype.trim
\* (and skipped by parseInt), as far as the model's inputs reach
WhiteSpace == {" ", "\t", "\n", "\r"}

RECURSIVE TrimStart(_)
TrimStart(s) ==
    IF s = <<>> THEN <<>>
    ELSE IF Head(s) \in WhiteSpace THEN TrimStart(Tail(s))
    ELSE s

RECURSIVE TrimEnd(_)
TrimEnd(s) ==
    IF s = <<>> THEN <<>>
    ELSE IF s[Len(s)] \in WhiteSpace THEN TrimEnd(SubSeq(s, 1, Len(s) - 1))
    ELSE s

\* text.trim()
Trim(s) == TrimEnd(TrimStart(s))

----------------------------------------------------------------------------
(* parseInt(string) without a radix argument *)

DecDigits == <<"0", "1", "2", "3", "4", "5", "6", "7", "8", "9">>
HexDigits == DecDigits \o <<"a", "b", "c", "d", "e", "f">>

\* the value of digit c in the given radix, or -1 when c is no such digit
DigitValue(c, radix) ==
    LET ds == IF radix = 16 THEN HexDigits ELSE DecDigits
        lc == CASE c = "A" -> "a" [] c = "B" -> "b" [] c = "C" -> "c"
                [] c = "D" -> "d" [] c = "E" -> "e" [] c = "F" -> "f"
                [] OTHER -> c
    IN  IF \E i \in 1..Len(ds) : ds[i] = lc
        THEN (CHOOSE i \in 1..Len(ds) : ds[i] = lc) - 1
        ELSE -1

\* the longest prefix of s made of digits of the radix
RECURSIVE DigitPrefix(_, _)
DigitPrefix(s, radix) ==
    IF s = <<>> \/ DigitValue(Head(s), radix) = -1 THEN <<>>
    ELSE <<Head(s)>> \o DigitPrefix(Tail(s), radix)

\* the mathematical value of a digit string
RECURSIVE DigitsToInt(_, _)
DigitsToInt(s, radix) ==
    IF s = <<>> THEN 0
    ELSE DigitsToInt(SubSeq(s, 1, Len(s) - 1), radix) * radix
         + DigitValue(s[Len(s)], radix)

NaN == [nan |-> TRUE, val |-> 0]
Num(n) == [nan |-> FALSE, val |-> n]

parseInt(str) ==
    LET s0    == TrimStart(str)
        neg   == s0 # <<>> /\ Head(s0) = "-"
        s1    == IF s0 # <<>> /\ Head(s0) \in {"+", "-"} THEN Tail(s0) ELSE s0
        hex   == Len(s1) >= 2 /\ s1[1] = "0" /\ s1[2] \in {"x", "X"}
        radix == IF hex THEN 16 ELSE 10
        s2    == IF hex THEN SubSeq(s1, 3, Len(s1)) ELSE s1
        z     == DigitPrefix(s2, radix)
    IN  IF z = <<>> THEN NaN
        ELSE Num((IF neg THEN -1 ELSE 1) * DigitsToInt(z, radix))

\* isNaN(id)
isNaN(n) == n.nan

----------------------------------------------------------------------------
(* JSON values a request body can carry in its `text` field *)

JSUndefined == [type |-> "undefined", bool |-> FALSE, num |-> 0, str |-> <<>>]
JSNull      == [type |-> "null",      bool |-> FALSE, num |-> 0, str |-> <<>>]
JSBool(b)   == [type |-> "boolean",   bool |-> b,     num |-> 0, str |-> <<>>]
JSNumber(n) == [type |-> "number",    bool |-> FALSE, num |-> n, str |-> <<>>]
JSString(s) == [type |-> "string",    bool |-> FALSE, num |-> 0, str |-> s]
\* an array or an object literal
JSObject    == [type |-> "object",    bool |-> FALSE, num |-> 0, str |-> <<>>]

\* typeof v
typeof(v) == IF v.type = "null" THEN "object" ELSE v.type

\* ToBoolean(v), the test behind `!text`
ToBoolean(v) ==
    CASE v.type = "undefined" -> FALSE
      [] v.type = "null"      -> FALSE
      [] v.type = "boolean"   -> v.bool
      [] v.type = "number"    -> v.num # 0
      [] v.type = "string"    -> v.str # <<>>
      [] OTHER                -> TRUE

\* the values of `text` that requests carry: absent, not a string, a string
NonStringTexts ==
    {JSUndefined, JSNull, JSBool(FALSE), JSBool(TRUE), JSNumber(0),
     JSNumber(7), JSObject}
\* "", " ", "   ", "\t\n", "a", " a", "a ", "\ta\r\n", "  b m  "
StringTexts ==
    { <<>>, <<" ">>, <<" ", " ", " ">>, <<"\t", "\n">>,
      <<"a">>, <<" ", "a">>, <<"a", " ">>, <<"\t", "a", "\r", "\n">>,
      <<" ", " ", "b", " ", "m", " ", " ">> }
BodyTexts == NonStringTexts \cup {JSString(s) : s \in StringTexts}

\* the :id path segments that requests carry (after URL decoding)
IdSegments ==
    { <<"1">>, <<"2">>, <<"3">>, <<"4">>, <<"0">>, <<"1", "2">>,
      <<"-", "1">>,
      <<"a", "b", "c">>, <<"a", "1">>, <<".">>,
      <<"1", ".", "5">>, <<"1", "a", "b", "c">>, <<"2", "x">>, <<" ", "1">> }

----------------------------------------------------------------------------
(* Requests and responses *)

\* body: what express.json() made of the request body, "object" when it
\* parsed to an object, else "none" (no body sent) or "malformed"
Request(method, route, text, id) ==
    [method |-> method, route |-> route, text |-> text, id |-> id,
     body |-> "object"]

NoRequest == Request("", "", JSUndefined, <<>>)

\* res.status(status).json(items) / .json({error}) / .send(); kind "html" is
\* the page Express's default error handler sends
Response(status, kind, error, items) ==
    [status |-> status, kind |-> kind, error |-> error, items |-> items]

NoResponse == Response(0, "none", "", <<>>)

APP_NAME == "Todo SaaS"
APP_DESCRIPTION == "Simple, clean, and efficient task management"

\* new Date().toISOString() for a clock reading of t ms (t < 1000)
Digit(d) == DecDigits[d + 1]
toISOString(t) ==
    "1970-01-01T00:00:00."
        \o Digit((t \div 100) % 10) \o Digit((t \div 10) % 10) \o Digit(t % 10)
        \o "Z"

----------------------------------------------------------------------------
(* Array operations, indices counted from 0 as in JavaScript *)

\* todos.findIndex(todo => todo.id === id)
findIndex(arr, id) ==
    IF \E i \in 1..Len(arr) : arr[i].id = id
    THEN (CHOOSE i \in 1..Len(arr) :
              arr[i].id = id /\ \A j \in 1..(i - 1) : arr[j].id # id) - 1
    ELSE -1

\* arr.splice(start): without the delete count everything from start on goes
spliceToEnd(arr, start) ==
    LET from == IF start < 0
                THEN (IF Len(arr) + start < 0 THEN 0 ELSE Len(arr) + start)
                ELSE (IF start > Len(arr) THEN Len(arr) ELSE start)
    IN  SubSeq(arr, 1, from)

\* arr.splice(start, 1): a negative start counts from the end
splice(arr, start) ==
    LET from == IF start < 0
                THEN (IF Len(arr) + start < 0 THEN 0 ELSE Len(arr) + start)
                ELSE (IF start > Len(arr) THEN Len(arr) ELSE start)
    IN  SubSeq(arr, 1, from) \o SubSeq(arr, from + 2, Len(arr))

\* arr.unshift(x) in the place of arr.push(x)
unshift(arr, x) == <<x>> \o arr

\* arr.push(x)
push(arr, x) == Append(arr, x)

\* `${id}`: the decimal digits of a non-negative integer
RECURSIVE ToDecimal(_)
ToDecimal(n) ==
    IF n < 10 THEN <<Digit(n)>>
    ELSE ToDecimal(n \div 10) \o <<Digit(n % 10)>>

----------------------------------------------------------------------------
(* The account the deployment scripts work on *)

\* the nine stacks of deploy-all.sh, in the order of its steps
StackNames ==
    <<"ecr", "shared-vpc", "security-groups", "ecs-cluster", "alb",
      "backend-task-definition", "frontend-task-definition",
      "backend-service", "frontend-service">>

StackIds == 1..Len(StackNames)

\* the command line before any command was started
NoArgs ==
    [command |-> "", version |-> "", environment |-> "", reply |-> <<>>,
     second |-> <<>>]

\* value || fallback, for a string or an unset variable of process.env
OrElse(value, fallback) == IF value = "" THEN fallback ELSE value

\* null, the value of the states error and success while no message is set
null == "null"

\* a container environment that sets neither APP_NAME nor APP_DESCRIPTION
NoEnv == [APP_NAME |-> "", APP_DESCRIPTION |-> ""]

----------------------------------------------------------------------------
(* The store and the route handlers *)

\* the store of a process that has just started
FreshStore == [todos |-> <<>>, nextId |-> 1, created |-> <<>>, deleted |-> {}]

Init ==
    /\ todos = <<>>
    /\ nextId = 1
    /\ clock = 0
    /\ req = NoRequest
    /\ resp = NoResponse
    /\ created = <<>>
    /\ deleted = {}
    /\ boots = 0
    /\ lost = 0
    /\ sent = [k \in Clients |-> NoRequest]
    /\ answers = [k \in Clients |-> NoResponse]
    /\ together = {}
    /\ before = {}
    /\ active = 1
    /\ parked = [r \in Replicas |-> FreshStore]
    /\ stacks = [i \in StackIds |-> "NONE"]
    /\ images = {}
    /\ script = ""
    /\ line = 0
    /\ args = NoArgs
    /\ envFile = FALSE
    /\ exitStatus = 0
    /\ createLog = <<>>
    /\ runs = 0
    /\ faults = FALSE
    /\ fresh = TRUE
    /\ deleteLog = <<>>
    /\ pushLog = <<>>
    /\ taskEnv = NoEnv
    /\ uiTodos = <<>>
    /\ uiNewTodo = <<>>
    /\ uiLoading = FALSE
    /\ uiError = null
    /\ uiSuccess = null
    /\ mounted = FALSE
    /\ calls = <<>>

\* the majors of Express the unpinned dependency can resolve to
ExpressMajors == {4, 5}

\* res.json(todos.reverse()): the array is reversed in place
GetTodosReversing ==
    /\ req' = Request("GET", "/api/todos", JSUndefined, <<>>)
    /\ todos' = [i \in 1..Len(todos) |-> todos[Len(todos) + 1 - i]]
    /\ resp' = Response(200, "array", "", todos')
    /\ UNCHANGED <<nextId, clock, created, deleted>>

\* app.get('/api/todos')
GetTodos ==
    /\ req' = Request("GET", "/api/todos", JSUndefined, <<>>)
    /\ resp' = Response(200, "array", "", todos)
    /\ UNCHANGED <<todos, nextId, clock, created, deleted>>

\* the test without its `text.trim() === ''` part
InvalidTextNoTrim(text) ==
    \/ ~ToBoolean(text)
    \/ typeof(text) # "string"

\* the test that rejects a request body
InvalidText(text) ==
    \/ ~ToBoolean(text)
    \/ typeof(text) # "string"
    \/ Trim(text.str) = <<>>

\* newTodo with `id: todos.length + 1`
NewTodoLengthId(text, t) ==
    [id |-> Len(todos) + 1, text |-> Trim(text.str),
     createdAt |-> toISOString(t)]

\* newTodo with `text: text`
NewTodoNoTrim(text, t) ==
    [id |-> nextId, text |-> text.str, createdAt |-> toISOString(t)]

\* the object literal newTodo, built when the clock reads t
NewTodo(text, t) ==
    [id |-> nextId, text |-> Trim(text.str), createdAt |-> toISOString(t)]

\* `nextId` in the place of `nextId++`
NoIncrement(n) == n

\* the value of nextId after `nextId++`
Increment(n) == n + 1

\* app.post('/api/todos')
PostTodos ==
    \E text \in BodyTexts :
        /\ req' = Request("POST", "/api/todos", text, <<>>)
        /\ IF InvalidText(text)
           THEN /\ resp' = Response(400, "error",
                      "Text is required and must be a non-empty string", <<>>)
                /\ UNCHANGED <<todos, nextId, clock, created, deleted>>
           ELSE /\ nextId <= MaxId
                /\ \E t \in clock..MaxTime :
                     LET newTodo == NewTodo(text, t)
                     IN  /\ clock' = t
                         /\ nextId' = Increment(nextId)
                         /\ todos' = push(todos, newTodo)
                         /\ created' = Append(created, newTodo)
                         /\ resp' = Response(201, "todo", "", <<newTodo>>)
                /\ UNCHANGED deleted

\* a POST whose body express.json() does not turn into an object: malformed
\* JSON is refused by the middleware and answered by the default error
\* handler; without a body req.body is {} (Express 4) or undefined (Express 5,
\* where the destructuring throws)
PostTodosWithoutObject ==
    \E b \in {"none", "malformed"}, major \in ExpressMajors :
        /\ req' = [Request("POST", "/api/todos", JSUndefined, <<>>)
                     EXCEPT !.body = b]
        /\ resp' = IF b = "malformed" THEN Response(400, "html", "", <<>>)
                   ELSE IF major = 4 /\ InvalidText(JSUndefined)
                   THEN Response(400, "error",
                          "Text is required and must be a non-empty string",
                          <<>>)
                   ELSE Response(500, "html", "", <<>>)
        /\ UNCHANGED <<todos, nextId, clock, created, deleted>>

\* the handler without its `todoIndex === -1` branch
DeleteTodoNoNotFound ==
    \E seg \in IdSegments :
        LET id        == parseInt(seg)
            todoIndex == findIndex(todos, id.val)
        IN  /\ req' = Request("DELETE", "/api/todos/:id", JSUndefined, seg)
            /\ IF isNaN(id)
               THEN /\ resp' = Response(400, "error", "Invalid todo ID", <<>>)
                    /\ UNCHANGED <<todos, deleted>>
               ELSE /\ todos' = splice(todos, todoIndex)
                    /\ deleted' = deleted \cup
                         ({todos[i].id : i \in 1..Len(todos)}
                             \ {todos'[i].id : i \in 1..Len(todos')})
                    /\ resp' = Response(204, "empty", "", <<>>)
            /\ UNCHANGED <<nextId, clock, created>>

\* app.delete('/api/todos/:id')
DeleteTodo ==
    \E seg \in IdSegments :
        LET id        == parseInt(seg)
            todoIndex == findIndex(todos, id.val)
        IN  /\ req' = Request("DELETE", "/api/todos/:id", JSUndefined, seg)
            /\ IF isNaN(id)
               THEN /\ resp' = Response(400, "error", "Invalid todo ID", <<>>)
                    /\ UNCHANGED <<todos, deleted>>
               ELSE IF todoIndex = -1
               THEN /\ resp' = Response(404, "error", "Todo not found", <<>>)
                    /\ UNCHANGED <<todos, deleted>>
               ELSE /\ todos' = splice(todos, todoIndex)
                    /\ deleted' = deleted \cup {todos[todoIndex + 1].id}
                    /\ resp' = Response(204, "empty", "", <<>>)
            /\ UNCHANGED <<nextId, clock, created>>

\* app.get('/api/health')
GetHealth ==
    \E t \in clock..MaxTime :
        /\ req' = Request("GET", "/api/health", JSUndefined, <<>>)
        /\ clock' = t
        /\ resp' = Response(200, "health", "",
                     <<[status |-> "OK", timestamp |-> toISOString(t),
                        app |-> APP_NAME, description |-> APP_DESCRIPTION]>>)
        /\ UNCHANGED <<todos, nextId, created, deleted>>

\* one process that handles one request after the other
Next ==
    \/ GetTodos /\ UNCHANGED <<lifeVars, clientVars, replicaVars, deployVars, uiVars>>
    \/ PostTodos /\ UNCHANGED <<lifeVars, clientVars, replicaVars, deployVars, uiVars>>
    \/ PostTodosWithoutObject /\ UNCHANGED <<lifeVars, clientVars, replicaVars, deployVars, uiVars>>
    \/ DeleteTodo /\ UNCHANGED <<lifeVars, clientVars, replicaVars, deployVars, uiVars>>
    \/ GetHealth /\ UNCHANGED <<lifeVars, clientVars, replicaVars, deployVars, uiVars>>

Spec == Init /\ [][Next]_vars

----------------------------------------------------------------------------
(* Restarts, concurrent clients and replicas. These specifications handle a
   few requests only, and leave the clock alone, to keep the product of the
   stores small. *)

LightRequests ==
    { Request("GET", "/api/todos", JSUndefined, <<>>),
      Request("POST", "/api/todos", JSString(<<" ", "a">>), <<>>),
      Request("POST", "/api/todos", JSString(<<" ">>), <<>>),
      Request("DELETE", "/api/todos/:id", JSUndefined, <<"1">>),
      Request("DELETE", "/api/todos/:id", JSUndefined, <<"2">>) }

\* the requests that change the store
WriteRequests == {r \in LightRequests : r.method # "GET"}

Light == req' \in LightRequests /\ clock' = clock

\* a restart that keeps the counter, as if nextId were persisted
RestartKeepsCounter ==
    /\ boots < MaxBoots
    /\ boots' = boots + 1
    /\ lost' = Len(todos)
    /\ todos' = <<>>
    /\ created' = <<>>
    /\ deleted' = {}
    /\ req' = NoRequest
    /\ resp' = NoResponse
    /\ UNCHANGED <<nextId, clock, clientVars, replicaVars, deployVars, uiVars>>

\* the container restarts: the module is evaluated again
Restart ==
    /\ boots < MaxBoots
    /\ boots' = boots + 1
    /\ lost' = Len(todos)
    /\ todos' = FreshStore.todos
    /\ nextId' = FreshStore.nextId
    /\ created' = FreshStore.created
    /\ deleted' = FreshStore.deleted
    /\ req' = NoRequest
    /\ resp' = NoResponse
    /\ UNCHANGED <<clock, clientVars, replicaVars, deployVars, uiVars>>

LifecycleNext ==
    \/ GetTodos /\ Light /\ UNCHANGED <<lifeVars, clientVars, replicaVars, deployVars, uiVars>>
    \/ PostTodos /\ Light /\ UNCHANGED <<lifeVars, clientVars, replicaVars, deployVars, uiVars>>
    \/ DeleteTodo /\ Light /\ UNCHANGED <<lifeVars, clientVars, replicaVars, deployVars, uiVars>>
    \/ Restart

LifecycleSpec == Init /\ [][LifecycleNext]_vars

\* ids of the records of an array
Ids(arr) == {arr[i].id : i \in 1..Len(arr)}

\* the request of client k waits for its handler
Waiting(k) == sent[k] # NoRequest /\ answers[k] = NoResponse

\* a request of client k arrives while the requests that arrived with it are
\* all still waiting (or while nothing is waiting: a new group begins)
Arrive(k) ==
    /\ ~Waiting(k)
    /\ \/ /\ \A j \in Clients : ~Waiting(j)
          /\ together' = {k}
       \/ /\ together # {}
          /\ k \notin together
          /\ \A j \in together : Waiting(j)
          /\ together' = together \cup {k}
    /\ \E r \in WriteRequests : sent' = [sent EXCEPT ![k] = r]
    /\ answers' = [answers EXCEPT ![k] = NoResponse]
    /\ before' = Ids(todos)
    /\ UNCHANGED <<storeVars, lifeVars, replicaVars, deployVars, uiVars>>

\* the event loop runs the handler of one waiting request to its end
Handle(k) ==
    /\ Waiting(k)
    /\ PostTodos \/ DeleteTodo
    /\ req' = sent[k]
    /\ clock' = clock
    /\ answers' = [answers EXCEPT ![k] = resp']
    /\ UNCHANGED <<sent, together, before, lifeVars, replicaVars,
                 deployVars, uiVars>>

ClientsNext ==
    \/ \E k \in Clients : Arrive(k)
    \/ \E k \in Clients : Handle(k)

ClientsSpec == Init /\ [][ClientsNext]_vars

\* the store of the active replica
ActiveStore ==
    [todos |-> todos, nextId |-> nextId, created |-> created,
     deleted |-> deleted]

\* the store of replica r
ReplicaStore(r) == IF r = active THEN ActiveStore ELSE parked[r]

\* the load balancer sends the next request to r, and all replicas use one
\* store
RouteShared(r) ==
    /\ r # active
    /\ active' = r
    /\ UNCHANGED <<parked, storeVars, lifeVars, clientVars, deployVars, uiVars>>

\* the load balancer sends the next request to replica r
Route(r) ==
    /\ r # active
    /\ active' = r
    /\ parked' = [parked EXCEPT ![active] = ActiveStore]
    /\ todos' = parked[r].todos
    /\ nextId' = parked[r].nextId
    /\ created' = parked[r].created
    /\ deleted' = parked[r].deleted
    /\ UNCHANGED <<clock, req, resp, lifeVars, clientVars, deployVars, uiVars>>

ReplicasNext ==
    \/ \E r \in Replicas : Route(r)
    \/ GetTodos /\ Light /\ UNCHANGED <<lifeVars, clientVars, replicaVars, deployVars, uiVars>>
    \/ PostTodos /\ Light /\ UNCHANGED <<lifeVars, clientVars, replicaVars, deployVars, uiVars>>
    \/ DeleteTodo /\ Light /\ UNCHANGED <<lifeVars, clientVars, replicaVars, deployVars, uiVars>>

ReplicasSpec == Init /\ [][ReplicasNext]_vars

----------------------------------------------------------------------------
(* build-and-push.sh and deploy-all.sh *)

\* the commands of deploy-all.sh that read or change state, with the line
\* each one is at
DeployProgram ==
    <<[op |-> "loadEnv", n |-> 0, at |-> 22],
      [op |-> "validate", n |-> 0, at |-> 33],
      [op |-> "account", n |-> 0, at |-> 59],
      [op |-> "confirm", n |-> 0, at |-> 79],
      [op |-> "stack", n |-> 1, at |-> 89],
      [op |-> "query", n |-> 1, at |-> 110],
      [op |-> "stack", n |-> 2, at |-> 120],
      [op |-> "stack", n |-> 3, at |-> 143],
      [op |-> "stack", n |-> 4, at |-> 164],
      [op |-> "stack", n |-> 5, at |-> 184],
      [op |-> "query", n |-> 5, at |-> 209],
      [op |-> "image", n |-> 1, at |-> 221],
      [op |-> "image", n |-> 2, at |-> 233],
      [op |-> "stack", n |-> 6, at |-> 248],
      [op |-> "stack", n |-> 7, at |-> 274],
      [op |-> "stack", n |-> 8, at |-> 298],
      [op |-> "stack", n |-> 9, at |-> 322],
      [op |-> "summary", n |-> 0, at |-> 344]>>

\* the commands of build-and-push.sh that read or change state
BuildProgram ==
    <<[op |-> "docker", n |-> 0, at |-> 41],
      [op |-> "account", n |-> 0, at |-> 47],
      [op |-> "repository", n |-> 0, at |-> 73],
      [op |-> "login", n |-> 0, at |-> 84],
      [op |-> "build", n |-> 1, at |-> 96],
      [op |-> "build", n |-> 2, at |-> 112],
      [op |-> "push", n |-> 1, at |-> 128],
      [op |-> "push", n |-> 2, at |-> 129],
      [op |-> "push", n |-> 3, at |-> 133],
      [op |-> "push", n |-> 4, at |-> 134],
      [op |-> "summary", n |-> 0, at |-> 137]>>

\* the commands of cleanup-all.sh that read or change state; the stacks are
\* deleted in the order of its steps
CleanupProgram ==
    <<[op |-> "validate", n |-> 0, at |-> 22],
      [op |-> "confirm", n |-> 0, at |-> 77],
      [op |-> "delete", n |-> 9, at |-> 108],
      [op |-> "delete", n |-> 8, at |-> 111],
      [op |-> "delete", n |-> 7, at |-> 114],
      [op |-> "delete", n |-> 6, at |-> 117],
      [op |-> "delete", n |-> 5, at |-> 120],
      [op |-> "delete", n |-> 4, at |-> 123],
      [op |-> "delete", n |-> 3, at |-> 126],
      [op |-> "delete", n |-> 2, at |-> 129],
      [op |-> "prompt", n |-> 0, at |-> 134],
      [op |-> "images", n |-> 0, at |-> 139],
      [op |-> "delete", n |-> 1, at |-> 154],
      [op |-> "summary", n |-> 0, at |-> 160]>>

Program(s) ==
    CASE s = "build" -> BuildProgram
      [] s = "cleanup" -> CleanupProgram
      [] OTHER -> DeployProgram

\* the running script s is at a command op
Running(s, op) == script = s /\ Program(s)[line].op = op

\* the first arguments given to the scripts
Versions == {"v1.0.0", "latest"}
Environments == {"dev", "qa"}

\* what the user types at the prompt
Typed ==
    {<<"y", "e", "s">>, <<"Y", "e", "s">>, <<"y", "e", "s", "s">>,
     <<"n", "o">>, <<"y">>}

\* read -n 3: at most three characters of the line
ReadN(text, n) == SubSeq(text, 1, IF Len(text) < n THEN Len(text) ELSE n)

\* [[ $REPLY =~ ^[Yy][Ee][Ss]$ ]]
Confirmed(r) ==
    /\ Len(r) = 3
    /\ r[1] \in {"Y", "y"}
    /\ r[2] \in {"E", "e"}
    /\ r[3] \in {"S", "s"}

\* [[ "$ENVIRONMENT" =~ ^(dev|staging|prod)$ ]]
ValidEnvironment(e) == e \in {"dev", "staging", "prod"}

\* the tags docker push sends, in the order of the four pushes
PushedTags(version) ==
    <<"backend-" \o version, "backend-latest",
      "frontend-" \o version, "frontend-latest">>

\* the tags deploy-all.sh looks for
CheckedTags == <<"backend-latest", "frontend-latest">>

\* aws cloudformation describe-stacks --stack-name ... succeeds
StackExists(i) == stacks[i] # "NONE"

\* the ECR stack holds the repository todo-app
RepositoryExists == stacks[1] \in {"CREATE_COMPLETE", "DELETE_FAILED"}

\* aws ecr describe-images --image-ids imageTag=... succeeds
ImageExists(tag) == RepositoryExists /\ tag \in images

EmptyAccount == (\A i \in StackIds : stacks[i] = "NONE") /\ images = {}

\* a command line is started at the shell prompt
Begin(command, s, version, environment) ==
    /\ script = ""
    /\ runs < MaxRuns
    /\ runs' = runs + 1
    /\ script' = s
    /\ line' = 1
    /\ args' = [command |-> command, version |-> version,
                environment |-> environment, reply |-> <<>>,
                second |-> <<>>]
    /\ envFile' \in IF s = "cleanup" \/ command = "build" THEN {envFile} ELSE BOOLEAN
    /\ createLog' = <<>>
    /\ deleteLog' = <<>>
    /\ pushLog' = <<>>
    /\ faults' = FALSE
    /\ fresh' = EmptyAccount
    /\ UNCHANGED <<stacks, images, exitStatus, backendVars, taskEnv>>

\* ./build-and-push.sh [version]
StartBuild == \E v \in Versions : Begin("build", "build", v, "")

\* ./deploy-all.sh [environment]
StartDeploy == \E e \in Environments : Begin("deploy", "deploy", "", e)

\* ./build-and-push.sh v1.0.0 us-east-1 && ./deploy-all.sh dev us-east-1
StartBoth == Begin("both", "build", "v1.0.0", "dev")

\* the running script goes on with its next command
Continue == line' = line + 1 /\ UNCHANGED <<script, exitStatus>>

\* the running script ends; after && the second script starts on status 0
Exit(status) ==
    IF script = "build" /\ args.command = "both" /\ status = 0
    THEN script' = "deploy" /\ line' = 1 /\ UNCHANGED exitStatus
    ELSE script' = "" /\ line' = line /\ exitStatus' = status

\* ${parameter:-word}: word when the parameter is unset or empty
ShellDefault(parameter, word) == IF parameter = "" THEN word ELSE parameter

\* APP_NAME="todo-app", and APP_DESCRIPTION, which the script never sets
SHELL_APP_NAME == "todo-app"
SHELL_APP_DESCRIPTION == ""

APP_NAME_ENV == ShellDefault(SHELL_APP_NAME, "Todo SaaS")
APP_DESCRIPTION_ENV ==
    ShellDefault(SHELL_APP_DESCRIPTION,
                 "Simple, clean, and efficient task management")

\* AppNameEnv and AppDescriptionEnv of the backend task definition, which
\* become APP_NAME and APP_DESCRIPTION of the container
TaskParameters ==
    [APP_NAME |-> APP_NAME_ENV, APP_DESCRIPTION |-> APP_DESCRIPTION_ENV]

\* a call of aws or docker fails and ends the script
Fail(status) == faults' = TRUE /\ Exit(status)

\* the .env block: print_info is not defined yet where it is called
LoadEnv ==
    /\ Running("deploy", "loadEnv")
    /\ IF envFile THEN Exit(127) ELSE Continue
    /\ UNCHANGED <<stacks, images, args, envFile, createLog, runs, faults,
                   fresh, backendVars,
                   deleteLog, pushLog, taskEnv>>

\* Validate environment
ValidateEnvironment ==
    /\ Running("deploy", "validate")
    /\ IF ValidEnvironment(args.environment) THEN Continue ELSE Exit(1)
    /\ UNCHANGED <<stacks, images, args, envFile, createLog, runs, faults,
                   fresh, backendVars,
                   deleteLog, pushLog, taskEnv>>

\* AWS_ACCOUNT_ID=$(aws sts get-caller-identity ...)
DeployAccount ==
    /\ Running("deploy", "account")
    /\ \/ Continue /\ UNCHANGED faults
       \/ Fail(255)
    /\ UNCHANGED <<stacks, images, args, envFile, createLog, runs, fresh,
                   backendVars,
                   deleteLog, pushLog, taskEnv>>

\* read -p "Continue with deployment? (yes/no): " -n 3 -r
Confirm ==
    /\ Running("deploy", "confirm")
    /\ \E text \in Typed :
        /\ args' = [args EXCEPT !.reply = ReadN(text, 3)]
        /\ IF Confirmed(ReadN(text, 3)) THEN Continue ELSE Exit(0)
    /\ UNCHANGED <<stacks, images, envFile, createLog, runs, faults, fresh,
                   backendVars,
                   deleteLog, pushLog, taskEnv>>

\* a step that creates its stack whether or not the stack exists
CreateStackUnchecked(i) ==
    /\ Running("deploy", "stack")
    /\ DeployProgram[line].n = i
    /\ createLog' = Append(createLog, i)
    /\ stacks' = [stacks EXCEPT ![i] = "CREATE_COMPLETE"]
    /\ taskEnv' = IF i = 6 THEN TaskParameters ELSE taskEnv
    /\ Continue
    /\ UNCHANGED <<images, args, envFile, runs, faults, fresh, backendVars,
                   deleteLog, pushLog>>

\* Step i/9: describe-stacks, then create-stack and wait unless it succeeded
CreateStack(i) ==
    /\ Running("deploy", "stack")
    /\ DeployProgram[line].n = i
    /\ IF StackExists(i)
       THEN /\ Continue
            /\ UNCHANGED <<stacks, createLog, faults, taskEnv>>
       ELSE /\ createLog' = Append(createLog, i)
            /\ \/ /\ stacks' = [stacks EXCEPT ![i] = "CREATE_COMPLETE"]
                  /\ taskEnv' = IF i = 6 THEN TaskParameters ELSE taskEnv
                  /\ Continue
                  /\ UNCHANGED faults
               \/ /\ UNCHANGED <<stacks, taskEnv>>
                  /\ Fail(255)
               \/ /\ stacks' = [stacks EXCEPT ![i] = "ROLLBACK_COMPLETE"]
                  /\ UNCHANGED taskEnv
                  /\ Fail(255)
    /\ UNCHANGED <<images, args, envFile, runs, fresh, backendVars,
                   deleteLog, pushLog>>

\* ECR_REPO_URI=$(aws cloudformation describe-stacks ...), and ALB_DNS
QueryOutput ==
    /\ Running("deploy", "query")
    /\ \/ Continue /\ UNCHANGED faults
       \/ Fail(255)
    /\ UNCHANGED <<stacks, images, args, envFile, createLog, runs, fresh,
                   backendVars,
                   deleteLog, pushLog, taskEnv>>

\* an image check that finds every image
CheckImageAlways(n) ==
    /\ Running("deploy", "image")
    /\ DeployProgram[line].n = n
    /\ Continue
    /\ UNCHANGED <<stacks, images, args, envFile, createLog, runs, faults,
                   fresh, backendVars,
                   deleteLog, pushLog, taskEnv>>

\* if aws ecr describe-images ... ; else exit 1
CheckImage(n) ==
    /\ Running("deploy", "image")
    /\ DeployProgram[line].n = n
    /\ IF ImageExists(CheckedTags[n])
       THEN \/ Continue /\ UNCHANGED faults
            \/ Fail(1)
       ELSE Exit(1) /\ UNCHANGED faults
    /\ UNCHANGED <<stacks, images, args, envFile, createLog, runs, fresh,
                   backendVars,
                   deleteLog, pushLog, taskEnv>>

\* Deployment Summary
DeploySummary ==
    /\ Running("deploy", "summary")
    /\ Exit(0)
    /\ UNCHANGED <<stacks, images, args, envFile, createLog, runs, faults,
                   fresh, backendVars,
                   deleteLog, pushLog, taskEnv>>

\* a script that goes on after a failed check, login or build
BuildCallContinuing ==
    /\ \/ Running("build", "docker")
       \/ Running("build", "account")
       \/ Running("build", "login")
       \/ Running("build", "build")
    /\ \/ Continue /\ UNCHANGED faults
       \/ Continue /\ faults' = TRUE
    /\ UNCHANGED <<stacks, images, args, envFile, createLog, runs, fresh,
                   backendVars,
                   deleteLog, pushLog, taskEnv>>

\* docker info, aws sts get-caller-identity, docker login, docker buildx
\* build and docker tag: exit 1 when the call fails
BuildCall ==
    /\ \/ Running("build", "docker")
       \/ Running("build", "account")
       \/ Running("build", "login")
       \/ Running("build", "build")
    /\ \/ Continue /\ UNCHANGED faults
       \/ Fail(1)
    /\ UNCHANGED <<stacks, images, args, envFile, createLog, runs, fresh,
                   backendVars,
                   deleteLog, pushLog, taskEnv>>

\* if ! aws ecr describe-repositories --repository-names $APP_NAME
CheckRepository ==
    /\ Running("build", "repository")
    /\ IF RepositoryExists
       THEN \/ Continue /\ UNCHANGED faults
            \/ Fail(1)
       ELSE Exit(1) /\ UNCHANGED faults
    /\ UNCHANGED <<stacks, images, args, envFile, createLog, runs, fresh,
                   backendVars,
                   deleteLog, pushLog, taskEnv>>

\* docker push ${ECR_REGISTRY}/${APP_NAME}:<tag>
Push(n) ==
    /\ Running("build", "push")
    /\ BuildProgram[line].n = n
    /\ \/ /\ images' = images \cup {PushedTags(args.version)[n]}
          /\ pushLog' = Append(pushLog, PushedTags(args.version)[n])
          /\ Continue
          /\ UNCHANGED faults
       \/ /\ UNCHANGED <<images, pushLog>>
          /\ Fail(1)
    /\ UNCHANGED <<stacks, args, envFile, createLog, runs, fresh,
                   backendVars, deleteLog, taskEnv>>

\* Summary
BuildSummary ==
    /\ Running("build", "summary")
    /\ Exit(0)
    /\ UNCHANGED <<stacks, images, args, envFile, createLog, runs, faults,
                   fresh, backendVars,
                   deleteLog, pushLog, taskEnv>>

DeployNext ==
    \/ StartBuild
    \/ StartDeploy
    \/ StartBoth
    \/ LoadEnv
    \/ ValidateEnvironment
    \/ DeployAccount
    \/ Confirm
    \/ \E i \in StackIds : CreateStack(i)
    \/ QueryOutput
    \/ \E n \in 1..Len(CheckedTags) : CheckImage(n)
    \/ DeploySummary
    \/ BuildCall
    \/ CheckRepository
    \/ \E n \in 1..4 : Push(n)
    \/ BuildSummary

DeploySpec == Init /\ [][DeployNext]_vars

----------------------------------------------------------------------------
(* cleanup-all.sh *)

\* what the user types at the prompt "Type 'DELETE' to confirm"
TypedLines ==
    {<<"D", "E", "L", "E", "T", "E">>, <<"d", "e", "l", "e", "t", "e">>,
     <<"D", "E", "L", "E", "T", "E", " ">>, <<"y", "e", "s">>}

\* the number of stacks left in DELETE_FAILED
FailedStacks == Cardinality({i \in StackIds : stacks[i] = "DELETE_FAILED"})

\* ./cleanup-all.sh [environment]
StartCleanup == \E e \in Environments : Begin("cleanup", "cleanup", "", e)

\* Validate environment
CleanupValidate ==
    /\ Running("cleanup", "validate")
    /\ IF ValidEnvironment(args.environment) THEN Continue ELSE Exit(1)
    /\ UNCHANGED <<stacks, images, args, envFile, createLog, runs, faults,
                   fresh, backendVars, deleteLog, pushLog, taskEnv>>

\* read -p "... Type 'DELETE' to confirm: " -r; [[ ! $REPLY == "DELETE" ]]
CleanupConfirm ==
    /\ Running("cleanup", "confirm")
    /\ \E text \in TypedLines :
        /\ args' = [args EXCEPT !.reply = text]
        /\ IF text = <<"D", "E", "L", "E", "T", "E">>
           THEN Continue
           ELSE Exit(0)
    /\ UNCHANGED <<stacks, images, envFile, createLog, runs, faults, fresh,
                   backendVars, deleteLog, pushLog, taskEnv>>

\* delete_stack: describe-stacks, then delete-stack and the wait, whose
\* failure is reported and the script goes on
delete_stack(i) ==
    /\ Running("cleanup", "delete")
    /\ CleanupProgram[line].n = i
    /\ IF StackExists(i)
       THEN /\ deleteLog' = Append(deleteLog, i)
            /\ \/ /\ stacks' = [stacks EXCEPT ![i] = "NONE"]
                  /\ images' = IF i = 1 THEN {} ELSE images
                  /\ taskEnv' = IF i = 6 THEN NoEnv ELSE taskEnv
                  /\ Continue
                  /\ UNCHANGED faults
               \/ /\ UNCHANGED <<stacks, images, taskEnv>>
                  /\ Fail(255)
               \/ /\ FailedStacks < MaxFailed
                  /\ stacks' = [stacks EXCEPT ![i] = "DELETE_FAILED"]
                  /\ UNCHANGED <<images, taskEnv>>
                  /\ faults' = TRUE
                  /\ Continue
       ELSE /\ Continue
            /\ UNCHANGED <<stacks, images, taskEnv, deleteLog, faults>>
    /\ UNCHANGED <<args, envFile, createLog, runs, fresh, backendVars,
                   pushLog>>

\* a second prompt whose answer is not looked at
PromptEcrIgnored ==
    /\ Running("cleanup", "prompt")
    /\ \E text \in Typed : args' = [args EXCEPT !.second = ReadN(text, 3)]
    /\ Continue
    /\ UNCHANGED <<stacks, images, envFile, createLog, runs, faults, fresh,
                   backendVars, deleteLog, pushLog, taskEnv>>

\* read -p "Do you want to delete the ECR repository? (yes/no): " -n 3 -r
PromptEcr ==
    /\ Running("cleanup", "prompt")
    /\ \E text \in Typed :
        /\ args' = [args EXCEPT !.second = ReadN(text, 3)]
        /\ IF Confirmed(ReadN(text, 3))
           THEN Continue
           ELSE line' = Len(CleanupProgram) /\ UNCHANGED <<script, exitStatus>>
    /\ UNCHANGED <<stacks, images, envFile, createLog, runs, faults, fresh,
                   backendVars, deleteLog, pushLog, taskEnv>>

\* aws ecr list-images ... || echo "[]", then batch-delete-image ... || true
DeleteImages ==
    /\ Running("cleanup", "images")
    /\ \/ images' = {} /\ UNCHANGED faults
       \/ images # {} /\ images' = images /\ faults' = TRUE
    /\ Continue
    /\ UNCHANGED <<stacks, args, envFile, createLog, runs, fresh,
                   backendVars, deleteLog, pushLog, taskEnv>>

\* Cleanup Summary
CleanupSummary ==
    /\ Running("cleanup", "summary")
    /\ Exit(0)
    /\ UNCHANGED <<stacks, images, args, envFile, createLog, runs, faults,
                   fresh, backendVars, deleteLog, pushLog, taskEnv>>

\* the steps of the other two scripts in which no call fails, no .env file
\* is found and the environment is dev
Smooth == ~faults' /\ ~envFile' /\ args'.environment # "qa"

\* the three scripts, run one after the other on one account
CleanupNext ==
    \/ DeployNext /\ Smooth
    \/ StartCleanup
    \/ CleanupValidate
    \/ CleanupConfirm
    \/ \E i \in StackIds : delete_stack(i)
    \/ PromptEcr
    \/ DeleteImages
    \/ CleanupSummary

CleanupSpec == Init /\ [][CleanupNext]_vars

----------------------------------------------------------------------------
(* Vocabulary of the properties *)

\* the ids issued so far, in the order of issue
IssuedIds == [i \in 1..Len(created) |-> created[i].id]

\* the records created and not deleted since, in creation order
Survivors == SelectSeq(created, LAMBDA r : r.id \notin deleted)

\* seg is an integer in decimal notation: an optional minus sign, then digits
IsIntegerLiteral(seg) ==
    LET ds == IF seg # <<>> /\ Head(seg) = "-" THEN Tail(seg) ELSE seg
    IN  /\ ds # <<>>
        /\ \A i \in 1..Len(ds) : DigitValue(ds[i], 10) # -1

\* the integer that an integer literal denotes
LiteralValue(seg) ==
    IF Head(seg) = "-" THEN 0 - DigitsToInt(Tail(seg), 10)
    ELSE DigitsToInt(seg, 10)

IsWhiteSpaceOnly(s) == \A i \in 1..Len(s) : s[i] \in WhiteSpace

\* arr without its element at position i (counted from 1)
Without(arr, i) == [k \in 1..(Len(arr) - 1) |-> IF k < i THEN arr[k] ELSE arr[k + 1]]

\* a POST whose body reached the handler as an object
PostHandled ==
    req'.method = "POST" /\ req'.route = "/api/todos" /\ req'.body = "object"
DeleteHandled == req'.method = "DELETE" /\ req'.route = "/api/todos/:id"

----------------------------------------------------------------------------
(* Properties of the store *)

\* C1: in every reachable state no two records of todos have the same id
C1_UniqueIds ==
    \A i, j \in 1..Len(todos) : i # j => todos[i].id # todos[j].id

\* C1 witness: two records are stored after a create that followed a delete
C1_Witness ==
    /\ Len(todos) >= 2
    /\ deleted # {}
    /\ \E i \in 1..Len(todos) : \A d \in deleted : todos[i].id > d

\* C2: the id of each created todo is strictly greater than every id issued
\* before it, the ids of deleted records included
C2_IdsStrictlyIncreasing ==
    [][(PostHandled /\ resp'.status = 201)
          => /\ \A i \in 1..Len(created) : created[i].id < resp'.items[1].id
             /\ IssuedIds' = Append(IssuedIds, resp'.items[1].id)]_vars

\* C2 witness: insert, insert, delete id 1, insert has answered with id 3
C2_Witness ==
    /\ IssuedIds = <<1, 2, 3>>
    /\ deleted = {1}
    /\ req.method = "POST" /\ resp.status = 201 /\ resp.items[1].id = 3

\* C3: nextId starts at 1, never decreases, and always exceeds every id
\* issued so far, whether its record is stored or deleted
C3_CounterAboveIssued ==
    /\ nextId = 1
    /\ [][nextId' >= nextId]_vars
    /\ [](\A i \in 1..Len(created) : created[i].id < nextId)

\* C3 witness: ids were issued and the record of the largest one is deleted
C3_Witness ==
    /\ Len(created) >= 2
    /\ created[Len(created)].id \in deleted
    /\ nextId = created[Len(created)].id + 1

\* C4: todos holds exactly the surviving records in creation order, and
\* GET /api/todos answers with them
C4_ListInCreationOrder ==
    /\ todos = Survivors
    /\ (req.method = "GET" /\ req.route = "/api/todos")
          => resp.status = 200 /\ resp.kind = "array" /\ resp.items = Survivors

\* C4 witness: GET /api/todos answered after a record between two others
\* was deleted
C4_Witness ==
    /\ req.method = "GET" /\ req.route = "/api/todos"
    /\ Len(created) = 3 /\ deleted = {created[2].id}
    /\ Len(resp.items) = 2

\* C5: a POST with a string that is non-empty after trimming answers 201 with
\* id = nextId before the request and the trimmed text, appends that record
\* to todos and adds one to nextId
C5_CreateAppends ==
    [][(/\ PostHandled
        /\ req'.text.type = "string"
        /\ ~IsWhiteSpaceOnly(req'.text.str))
          => /\ resp'.status = 201 /\ resp'.kind = "todo"
             /\ Len(resp'.items) = 1
             /\ resp'.items[1].id = nextId
             /\ resp'.items[1].text = Trim(req'.text.str)
             /\ todos' = Append(todos, resp'.items[1])
             /\ nextId' = nextId + 1]_vars

\* C5 witness: a text with surrounding blanks was stored behind another record
C5_Witness ==
    /\ req.method = "POST"
    /\ req.text = JSString(<<" ", " ", "b", " ", "m", " ", " ">>)
    /\ resp.status = 201
    /\ Len(todos) >= 2
    /\ todos[Len(todos)].text = <<"b", " ", "m">>

\* C6: the text of every stored record is non-empty and has no leading or
\* trailing whitespace
C6_TextTrimmedNonEmpty ==
    \A i \in 1..Len(todos) :
        /\ todos[i].text # <<>>
        /\ Head(todos[i].text) \notin WhiteSpace
        /\ todos[i].text[Len(todos[i].text)] \notin WhiteSpace

\* C6 witness: a record is stored whose request text had whitespace around it
C6_Witness ==
    /\ req.method = "POST" /\ resp.status = 201
    /\ req.text = JSString(<<"\t", "a", "\r", "\n">>)
    /\ todos[Len(todos)].text = <<"a">>

\* C7: a POST whose text is absent, not a string, empty or whitespace only
\* answers 400 with the validation message and changes neither todos nor
\* nextId
C7_InvalidTextRejected ==
    [][(/\ PostHandled
        /\ \/ req'.text.type # "string"
           \/ IsWhiteSpaceOnly(req'.text.str))
          => /\ resp' = Response(400, "error",
                   "Text is required and must be a non-empty string", <<>>)
             /\ todos' = todos
             /\ nextId' = nextId]_vars

\* C7 witness: a whitespace-only text was refused while records are stored
C7_Witness ==
    /\ req.method = "POST" /\ req.text = JSString(<<" ", " ", " ">>)
    /\ resp.status = 400
    /\ Len(todos) >= 1

\* C8: a DELETE whose id is that of a stored record answers 204, removes
\* exactly that record and changes neither the other records, nor their
\* order, nor nextId
C8_DeleteRemovesOne ==
    [][\A i \in 1..Len(todos) :
          (DeleteHandled /\ req'.id = ToDecimal(todos[i].id))
             => /\ resp' = Response(204, "empty", "", <<>>)
                /\ todos' = Without(todos, i)
                /\ nextId' = nextId]_vars

\* C8 witness: the first of three records was deleted and two are left
C8_Witness ==
    /\ req.method = "DELETE" /\ resp.status = 204
    /\ Len(created) = 3 /\ deleted = {created[1].id}
    /\ todos = <<created[2], created[3]>>

\* C9: a DELETE whose id is a well-formed integer that matches no stored
\* record answers 404 'Todo not found' and changes neither todos nor nextId
C9_DeleteAbsentNotFound ==
    [][(/\ DeleteHandled
        /\ IsIntegerLiteral(req'.id)
        /\ \A i \in 1..Len(todos) : todos[i].id # LiteralValue(req'.id))
          => /\ resp' = Response(404, "error", "Todo not found", <<>>)
             /\ todos' = todos
             /\ nextId' = nextId]_vars

\* C9 witness: the id of an already deleted record was refused while other
\* records are stored
C9_Witness ==
    /\ req.method = "DELETE" /\ resp.status = 404
    /\ IsIntegerLiteral(req.id) /\ LiteralValue(req.id) \in deleted
    /\ Len(todos) >= 1

\* C10: a DELETE whose :id segment is not an integer answers 400 'Invalid
\* todo ID' and removes no record
C10_NonIntegerIdRejected ==
    [][(DeleteHandled /\ ~IsIntegerLiteral(req'.id))
          => /\ resp' = Response(400, "error", "Invalid todo ID", <<>>)
             /\ todos' = todos]_vars

\* C10, the case in which a record is lost: a DELETE whose :id segment is not
\* an integer removes no record
C10_NonIntegerIdRemovesNothing ==
    [][(DeleteHandled /\ ~IsIntegerLiteral(req'.id)) => todos' = todos]_vars

----------------------------------------------------------------------------
(* Properties of the responses and of the frame *)

ValidationMessages ==
    {"Text is required and must be a non-empty string", "Invalid todo ID"}

\* C11: a response with status 400 or 404 carries a JSON object with a string
\* field error, 400 with a validation message and 404 with the not-found
\* message, and a response with status 200, 201 or 204 carries no error
\* field; bodies that are missing or not valid JSON included
C11_ErrorResponsesAreJson ==
    /\ resp.status \in {400, 404} => resp.kind = "error" /\ resp.error # ""
    /\ resp.status = 400 => resp.error \in ValidationMessages
    /\ resp.status = 404 => resp.error = "Todo not found"
    /\ resp.status \in {200, 201, 204} => resp.kind # "error" /\ resp.error = ""

\* C12: GET /api/todos and GET /api/health change neither todos nor nextId,
\* and GET /api/health answers 200 with status 'OK' whatever is stored
C12_ReadsChangeNothing ==
    [][(req'.method = "GET")
          => /\ todos' = todos
             /\ nextId' = nextId
             /\ (req'.route = "/api/health")
                   => /\ resp'.status = 200 /\ resp'.kind = "health"
                      /\ Len(resp'.items) = 1
                      /\ resp'.items[1].status = "OK"]_vars

\* C12 witness: the health check answered while records are stored and one
\* is deleted
C12_Witness ==
    /\ req.method = "GET" /\ req.route = "/api/health"
    /\ resp.status = 200
    /\ Len(todos) >= 2 /\ deleted # {}

\* C13: a stored record keeps its id, text and createdAt until it is
\* deleted, and every change of the store is the append of one new record or
\* the removal of one whole record
C13_RecordsImmutable ==
    [][/\ \A i \in 1..Len(todos) :
             \A j \in 1..Len(todos') :
                 todos'[j].id = todos[i].id => todos'[j] = todos[i]
       /\ \/ todos' = todos
          \/ \E r \in {resp'.items[k] : k \in 1..Len(resp'.items)} :
                 /\ resp'.kind = "todo"
                 /\ todos' = Append(todos, r)
                 /\ \A i \in 1..Len(created) : created[i].id # r.id
          \/ \E i \in 1..Len(todos) : todos' = Without(todos, i)]_vars

\* C13 witness: a record created first is still stored, unchanged, after a
\* later create and a delete of another record
C13_Witness ==
    /\ Len(created) = 3 /\ deleted = {created[2].id}
    /\ todos = <<created[1], created[3]>>
    /\ req.method = "DELETE" /\ resp.status = 204

----------------------------------------------------------------------------
(* Properties of restarts, concurrent clients and replicas *)

\* C16: the store is empty with nextId = 1 at process start, and a restart
\* from any state leads to the empty store with nextId = 1 again
C16_RestartEmptiesStore ==
    /\ todos = <<>> /\ nextId = 1
    /\ [][boots' # boots
            => /\ todos' = <<>>
               /\ nextId' = 1
               /\ req' = NoRequest]_vars
    /\ [][(boots' = boots /\ req = NoRequest /\ resp'.status = 201)
            => resp'.items[1].id = 1]_vars

\* C16 witness: after a restart that discarded two records, of which the
\* later had id 3, a create was answered with id 1 again
C16_Witness ==
    /\ boots = 1 /\ lost = 2
    /\ req.method = "POST" /\ resp.status = 201
    /\ todos = <<resp.items[1]>> /\ resp.items[1].id = 1

\* the clients of the group that sent request r and have their answer
Answered(r) == {k \in together : sent[k] = r /\ ~Waiting(k)}

\* C14: requests that arrive together are handled one after the other: two
\* concurrent POSTs get different ids and both records are stored, and of
\* concurrent DELETEs of the same stored id exactly one is answered 204 and
\* every other one 404
C14_ConcurrentRequestsSerialized ==
    /\ \A j, k \in together :
          (/\ j # k
           /\ ~Waiting(j) /\ answers[j].status = 201
           /\ ~Waiting(k) /\ answers[k].status = 201)
             => /\ answers[j].items[1].id # answers[k].items[1].id
                /\ \A c \in {j, k} :
                      \/ \E i \in 1..Len(todos) : todos[i] = answers[c].items[1]
                      \/ answers[c].items[1].id \in deleted
    /\ \A r \in WriteRequests :
          (/\ r.method = "DELETE"
           /\ LiteralValue(r.id) \in before
           /\ Answered(r) # {}
           /\ \A k \in together : sent[k] = r => ~Waiting(k))
             => /\ Cardinality({k \in Answered(r) : answers[k].status = 204}) = 1
                /\ \A k \in Answered(r) : answers[k].status \in {204, 404}
                /\ LiteralValue(r.id) \notin Ids(todos)

\* C14 witness: two DELETEs of the stored id 1 arrived together, one was
\* answered 204 and the other 404
C14_Witness ==
    /\ together = {1, 2}
    /\ sent[1] = sent[2] /\ sent[1].method = "DELETE" /\ sent[1].id = <<"1">>
    /\ 1 \in before
    /\ answers[1].status = 404 /\ answers[2].status = 204

\* two POSTs arrived together and were answered with the ids 2 and 1
C14_WitnessPosts ==
    /\ together = {1, 2}
    /\ answers[1].status = 201 /\ answers[2].status = 201
    /\ answers[1].items[1].id = 2 /\ answers[2].items[1].id = 1
    /\ Len(todos) = 2

\* C15: a request handled by one replica leaves todos and nextId of every
\* other replica unchanged; the store of a replica changes only in the
\* requests routed to it
C15_ReplicasIndependent ==
    [][\A r \in Replicas :
          \/ r = active /\ active' = active
          \/ /\ ReplicaStore(r)'.todos = ReplicaStore(r).todos
             /\ ReplicaStore(r)'.nextId = ReplicaStore(r).nextId]_vars

\* C15 witness: replica 2 created a record and deleted it while replica 1
\* keeps its own two records, and both have issued the id 1
C15_Witness ==
    /\ active = 2
    /\ req.method = "DELETE" /\ resp.status = 204
    /\ todos = <<>> /\ nextId = 2
    /\ Len(ReplicaStore(1).todos) = 2 /\ ReplicaStore(1).nextId = 3

----------------------------------------------------------------------------
(* The browser client App.tsx, talking to one backend process *)

\* the values typed into the input: "", " ", " a", "a "
TypedTodos == {<<>>, <<" ">>, <<" ", "a">>, <<"a", " ">>}

\* a run of fetchTodos, addTodo or deleteTodo: the value of `todos` its
\* closure holds, what it sent, where it stands, and the response it awaits
Call(kind, closure, text, id) ==
    [kind |-> kind, stage |-> "sent", closure |-> closure, text |-> text,
     id |-> id, response |-> NoResponse, ok |-> FALSE]

\* a run that has ended, with ok telling whether response.ok held
Done(call, ok) ==
    [kind |-> call.kind, stage |-> "done", closure |-> <<>>,
     text |-> call.text, id |-> call.id, response |-> NoResponse,
     ok |-> ok]

\* response.ok
Ok(response) == response.status >= 200 /\ response.status <= 299

\* the message of the TypeError a rejected fetch carries
NetworkError == "Failed to fetch"

\* todos.filter(todo => todo.id !== id)
filter(list, id) == SelectSeq(list, LAMBDA todo : todo.id # id)

\* useEffect(() => { fetchTodos(); }, []): the component mounts, and
\* fetchTodos runs up to its await
Mount ==
    /\ ~mounted
    /\ mounted' = TRUE
    /\ uiLoading' = TRUE
    /\ uiError' = null
    /\ calls' = Append(calls, Call("fetch", uiTodos, <<>>, 0))
    /\ UNCHANGED <<uiTodos, uiNewTodo, uiSuccess>>

\* onChange={(e) => setNewTodo(e.target.value)}; the input is disabled
\* while loading
onChange ==
    /\ mounted
    /\ ~uiLoading
    /\ \E value \in TypedTodos : uiNewTodo' = value
    /\ UNCHANGED <<uiTodos, uiLoading, uiError, uiSuccess, mounted, calls>>

\* addTodo without its test of newTodo.trim()
addTodoUnchecked ==
    /\ mounted
    /\ ~uiLoading
    /\ Len(calls) < MaxCalls
    /\ uiError' = null
    /\ uiSuccess' = null
    /\ calls' = Append(calls, Call("add", uiTodos, Trim(uiNewTodo), 0))
    /\ UNCHANGED <<uiTodos, uiNewTodo, uiLoading, mounted>>

\* addTodo, up to its return or its await
addTodo ==
    /\ mounted
    /\ ~uiLoading
    /\ IF Trim(uiNewTodo) = <<>>
       THEN /\ uiError' = "Please enter a todo item"
            /\ UNCHANGED <<uiSuccess, calls>>
       ELSE /\ Len(calls) < MaxCalls
            /\ uiError' = null
            /\ uiSuccess' = null
            /\ calls' = Append(calls, Call("add", uiTodos, Trim(uiNewTodo), 0))
    /\ UNCHANGED <<uiTodos, uiNewTodo, uiLoading, mounted>>

\* deleteTodo(todo.id) of a listed record, up to its await; the button is
\* disabled while loading
deleteTodo ==
    /\ mounted
    /\ ~uiLoading
    /\ Len(calls) < MaxCalls
    /\ \E k \in 1..Len(uiTodos) :
        calls' = Append(calls, Call("delete", uiTodos, <<>>, uiTodos[k].id))
    /\ uiError' = null
    /\ uiSuccess' = null
    /\ UNCHANGED <<uiTodos, uiNewTodo, uiLoading, mounted>>

\* the request of run c reaches the backend, whose handler answers it
Serve(c) ==
    /\ calls[c].stage = "sent"
    /\ CASE calls[c].kind = "fetch" -> GetTodos
         [] calls[c].kind = "add" ->
              /\ PostTodos
              /\ req' = Request("POST", "/api/todos",
                                JSString(calls[c].text), <<>>)
              /\ clock' = clock
         [] OTHER ->
              /\ DeleteTodo
              /\ req' = Request("DELETE", "/api/todos/:id", JSUndefined,
                                ToDecimal(calls[c].id))
    /\ calls' = [calls EXCEPT ![c].stage = "answered", ![c].response = resp']
    /\ UNCHANGED <<uiTodos, uiNewTodo, uiLoading, uiError, uiSuccess,
                   mounted>>

\* the request of run c does not reach the backend: fetch rejects
Reject(c) ==
    /\ calls[c].stage = "sent"
    /\ calls' = [calls EXCEPT ![c].stage = "rejected"]
    /\ UNCHANGED <<uiTodos, uiNewTodo, uiLoading, uiError, uiSuccess,
                   mounted, storeVars>>

\* run c goes on after its await, with the `todos` of its closure
Resume(c) ==
    LET call == calls[c]
        good == call.stage = "answered" /\ Ok(call.response)
    IN  /\ call.stage \in {"answered", "rejected"}
        /\ calls' = [calls EXCEPT ![c] = Done(call, good)]
        /\ CASE call.kind = "fetch" ->
                  /\ uiTodos' = IF good THEN call.response.items ELSE uiTodos
                  /\ uiError' =
                        IF good THEN uiError
                        ELSE IF call.stage = "rejected" THEN NetworkError
                        ELSE "Failed to fetch todos"
                  /\ uiLoading' = FALSE
                  /\ UNCHANGED <<uiNewTodo, uiSuccess>>
             [] call.kind = "add" ->
                  IF good
                  THEN /\ uiTodos' = call.closure \o call.response.items
                       /\ uiNewTodo' = <<>>
                       /\ uiSuccess' = "Todo added successfully!"
                       /\ UNCHANGED <<uiError, uiLoading>>
                  ELSE /\ uiError' =
                             IF call.stage = "rejected" THEN NetworkError
                             ELSE OrElse(call.response.error,
                                         "Failed to add todo")
                       /\ UNCHANGED <<uiTodos, uiNewTodo, uiSuccess,
                                      uiLoading>>
             [] OTHER ->
                  IF good
                  THEN /\ uiTodos' = filter(call.closure, call.id)
                       /\ uiSuccess' = "Todo deleted successfully!"
                       /\ UNCHANGED <<uiError, uiNewTodo, uiLoading>>
                  ELSE /\ uiError' =
                             IF call.stage = "rejected" THEN NetworkError
                             ELSE "Failed to delete todo"
                       /\ UNCHANGED <<uiTodos, uiNewTodo, uiSuccess,
                                      uiLoading>>
        /\ UNCHANGED mounted

\* setTimeout(() => setSuccess(null), 3000) fires
ClearSuccess ==
    /\ uiSuccess # null
    /\ uiSuccess' = null
    /\ UNCHANGED <<uiTodos, uiNewTodo, uiLoading, uiError, mounted, calls>>

\* what the steps of the client alone leave as it is
Client == UNCHANGED <<storeVars, lifeVars, clientVars, replicaVars, deployVars>>

UINext ==
    \/ Mount /\ Client
    \/ onChange /\ Client
    \/ addTodo /\ Client
    \/ deleteTodo /\ Client
    \/ \E c \in 1..Len(calls) :
          Serve(c) /\ UNCHANGED <<lifeVars, clientVars, replicaVars, deployVars>>
    \/ \E c \in 1..Len(calls) :
          Reject(c) /\ UNCHANGED <<lifeVars, clientVars, replicaVars, deployVars>>
    \/ \E c \in 1..Len(calls) : Resume(c) /\ Client
    \/ ClearSuccess /\ Client

UISpec == Init /\ [][UINext]_vars

----------------------------------------------------------------------------
(* Properties of the deployment scripts *)

\* the stacks a stack depends on, as the deployment order documents them
DependsOn(i) ==
    CASE i = 3 -> {2}
      [] i = 5 -> {2, 3}
      [] i = 6 -> {1, 4}
      [] i = 7 -> {1, 4}
      [] i = 8 -> {6, 5}
      [] i = 9 -> {7, 5}
      [] OTHER -> {}

\* this step issues create-stack for stack i
Issues(i) == createLog' = Append(createLog, i)

\* the stacks create-stack was issued for in the current run
Issued == {createLog[k] : k \in 1..Len(createLog)}

\* deploy-all.sh ran to its summary and exited with status 0
DeployCompleted ==
    /\ script = ""
    /\ args.command \in {"deploy", "both"}
    /\ DeployProgram[line].op = "summary"
    /\ exitStatus = 0

\* C17: in every run of deploy-all.sh, create-stack for a stack is issued
\* only when every stack it depends on is created completely, and in the
\* documented order, whatever state the stacks were in before the run
C17_CreateAfterDependencies ==
    [][\A i \in StackIds :
          Issues(i) =>
              /\ \A d \in DependsOn(i) : stacks[d] = "CREATE_COMPLETE"
              /\ \A j \in Issued : j < i]_vars

\* C18: create-stack is issued for a stack only when describe-stacks finds
\* no stack of that name, and a run that finds all nine stacks issues no
\* create-stack and leaves every stack as it is
C18_IdempotentByCheck ==
    [][/\ \A i \in StackIds : Issues(i) => stacks[i] = "NONE"
       /\ (script = "deploy" /\ \A i \in StackIds : StackExists(i)) =>
              (createLog' = createLog /\ stacks' = stacks)]_vars

\* C18 witness: a run of deploy-all.sh that was confirmed and started with
\* all nine stacks created has ended at its summary with no create-stack
C18_Witness ==
    /\ DeployCompleted
    /\ args.command = "deploy"
    /\ ~fresh
    /\ runs > 1
    /\ createLog = <<>>
    /\ \A i \in StackIds : stacks[i] = "CREATE_COMPLETE"

\* the running deploy-all.sh is at the check of an image that is missing
AtMissingImage ==
    /\ Running("deploy", "image")
    /\ ~ImageExists(CheckedTags[DeployProgram[line].n])

\* C19: create-stack for a task definition or a service is issued only
\* while backend-latest and frontend-latest are in the repository; a check
\* that misses one ends the script with status 1 after the first five
\* steps, with no create-stack for the stacks 6 to 9
C19_NoServiceWithoutImages ==
    [][/\ \A i \in 6..9 :
            Issues(i) => \A n \in 1..Len(CheckedTags) :
                             ImageExists(CheckedTags[n])
       /\ AtMissingImage =>
            /\ script' = ""
            /\ exitStatus' = 1
            /\ \A i \in 1..5 : StackExists(i)
            /\ Issued' \subseteq 1..5
            /\ stacks' = stacks]_vars

\* C19 witness: the script ended with status 1 at the check of
\* frontend-latest, after creating the first five stacks in this run
C19_Witness ==
    /\ script = ""
    /\ args.command = "deploy"
    /\ DeployProgram[line].op = "image" /\ DeployProgram[line].n = 2
    /\ exitStatus = 1
    /\ ~faults
    /\ "backend-latest" \in images /\ "frontend-latest" \notin images
    /\ \A i \in 6..9 : stacks[i] = "NONE"

\* C19 witness: with both images in the repository the script has created
\* the stacks 6 to 9
C19_WitnessCreated ==
    /\ DeployCompleted
    /\ {6, 7, 8, 9} \subseteq Issued
    /\ {"backend-latest", "frontend-latest"} \subseteq images

\* the user declined at the prompt
Declined == args.reply # <<>> /\ ~Confirmed(args.reply)

\* C20: build-and-push.sh v1.0.0 && deploy-all.sh dev, started on an account
\* with no stacks and no repository, confirmed and with no failing call,
\* ends with the four tags pushed and the nine stacks created
C20_FirstTimeDeploymentCompletes ==
    (/\ script = ""
     /\ args.command = "both"
     /\ fresh
     /\ ~faults
     /\ ~Declined)
    => /\ PushedTags(args.version)[1] \in images
       /\ PushedTags(args.version)[2] \in images
       /\ PushedTags(args.version)[3] \in images
       /\ PushedTags(args.version)[4] \in images
       /\ \A i \in StackIds : stacks[i] = "CREATE_COMPLETE"

----------------------------------------------------------------------------
(* Properties of cleanup-all.sh *)

\* this step issues delete-stack for stack i
Deletes(i) == deleteLog' = Append(deleteLog, i)

\* the stacks delete-stack was issued for in the current run
Deleted == {deleteLog[k] : k \in 1..Len(deleteLog)}

\* this step of cleanup-all.sh removes images from the repository
RemovesImages == script = "cleanup" /\ images' # images

\* the user typed exactly DELETE at the first prompt
TypedDelete == args.reply = <<"D", "E", "L", "E", "T", "E">>

\* cleanup-all.sh ran to its summary and exited with status 0
CleanupCompleted ==
    /\ script = ""
    /\ args.command = "cleanup"
    /\ CleanupProgram[line].op = "summary"
    /\ exitStatus = 0

\* C21 as stated: no delete-stack and no image deletion unless DELETE was
\* typed, and the images and the ECR stack are deleted only after the
\* answer yes, in exactly these letters, at the second prompt
C21_DeletesOnlyOnExactYes ==
    [][/\ ((\E i \in StackIds : Deletes(i)) \/ RemovesImages) => TypedDelete
       /\ (Deletes(1) \/ RemovesImages) =>
              args.second = <<"y", "e", "s">>]_vars

\* C21: no delete-stack and no image deletion unless DELETE was typed, and
\* the images and the ECR stack are deleted only after an answer whose three
\* characters are y, e, s in either letter case
C21_DeletesOnlyOnConfirmation ==
    [][/\ ((\E i \in StackIds : Deletes(i)) \/ RemovesImages) => TypedDelete
       /\ (Deletes(1) \/ RemovesImages) => Confirmed(args.second)]_vars

\* C21 witness: after DELETE and the answer Yes the run has deleted the ECR
\* stack, and no image is left
C21_Witness ==
    /\ CleanupCompleted
    /\ TypedDelete
    /\ args.second = <<"Y", "e", "s">>
    /\ 1 \in Deleted
    /\ stacks[1] = "NONE"
    /\ images = {}

\* C21 witness: after DELETE and the answer no the run has deleted other
\* stacks and has left the ECR stack and its images
C21_WitnessDeclined ==
    /\ CleanupCompleted
    /\ TypedDelete
    /\ args.second = <<"n", "o">>
    /\ 5 \in Deleted
    /\ 1 \notin Deleted
    /\ stacks[1] = "CREATE_COMPLETE"
    /\ "backend-latest" \in images

\* the stacks that depend on stack i
Dependents(i) == {j \in StackIds : i \in DependsOn(j)}

\* C22: in every run of cleanup-all.sh, delete-stack for a stack is issued
\* only when every stack that depends on it is deleted, also after the
\* deletion of an earlier stack has failed
C22_DeleteAfterDependents ==
    [][\A i \in StackIds :
          Deletes(i) => \A j \in Dependents(i) : stacks[j] = "NONE"]_vars

\* C25: a run of cleanup-all.sh that ends with the success message has
\* deleted every stack it issued delete-stack for
C25_SuccessMeansDeleted ==
    CleanupCompleted => \A i \in Deleted : stacks[i] = "NONE"

----------------------------------------------------------------------------
(* Properties of build-and-push.sh and of the summary of deploy-all.sh *)

\* the tags docker push sent in the current run
Pushed == {pushLog[k] : k \in 1..Len(pushLog)}

\* the four tags of the current run
RunTags == {PushedTags(args.version)[n] : n \in 1..4}

\* ./build-and-push.sh has ended at the command op
BuildEndedAt(op) ==
    /\ script = ""
    /\ args.command = "build"
    /\ BuildProgram[line].op = op

\* C23: a run of build-and-push.sh that reaches its success message leaves
\* the four tags in the repository, images are pushed only while no check,
\* login or build of the run has failed and the repository exists, and a run
\* that ends before the pushes has pushed nothing
C23_PushAllOrNothing ==
    /\ [](BuildEndedAt("summary") => RunTags \subseteq images)
    /\ [](\A op \in {"docker", "account", "repository", "login", "build"} :
             BuildEndedAt(op) => pushLog = <<>>)
    /\ [][(script = "build" /\ pushLog' # pushLog) =>
              (~faults /\ RepositoryExists)]_vars

\* C23 witness: build-and-push.sh v1.0.0 has reached its success message
\* after four pushes
C23_Witness ==
    /\ BuildEndedAt("summary")
    /\ exitStatus = 0
    /\ args.version = "v1.0.0"
    /\ Len(pushLog) = 4
    /\ Cardinality(images) = 4

\* C23 witness: the run ended with status 1 at the ECR login and pushed
\* nothing
C23_WitnessFailed ==
    /\ BuildEndedAt("login")
    /\ exitStatus = 1
    /\ faults
    /\ images = {}

\* C24: deploy-all.sh ends with its success message only when all nine
\* stacks are in CREATE_COMPLETE
C24_SuccessMeansCreated ==
    DeployCompleted => \A i \in StackIds : stacks[i] = "CREATE_COMPLETE"

----------------------------------------------------------------------------
(* Properties of the configuration deploy-all.sh passes on *)

\* app and description of the health payload of a process started with the
\* environment env
HealthConfig(env) ==
    [app |-> OrElse(env.APP_NAME, APP_NAME),
     description |-> OrElse(env.APP_DESCRIPTION, APP_DESCRIPTION)]

\* C26: without a .env file the backend task definition is created with
\* AppNameEnv 'Todo SaaS' and AppDescriptionEnv 'Simple, clean, and
\* efficient task management', so the deployed process reports the app and
\* description of an unconfigured process
C26_DeployedDefaults ==
    stacks[6] = "CREATE_COMPLETE" =>
        /\ taskEnv.APP_NAME = "Todo SaaS"
        /\ taskEnv.APP_DESCRIPTION =
               "Simple, clean, and efficient task management"
        /\ HealthConfig(taskEnv) = HealthConfig(NoEnv)

\* C27: with the file ../.env present the .env block of deploy-all.sh goes
\* on to the environment validation
C27_EnvFileNeverAborts ==
    [][(Running("deploy", "loadEnv") /\ envFile) =>
           (script' = "deploy" /\ line' = line + 1)]_vars

----------------------------------------------------------------------------
(* Properties of the browser client *)

\* every request the client started has ended, the adds and deletes with
\* response.ok
AllSucceeded ==
    /\ mounted
    /\ \A c \in 1..Len(calls) :
          /\ calls[c].stage = "done"
          /\ calls[c].kind \in {"add", "delete"} => calls[c].ok

\* C28: once every add and delete the client started has completed
\* successfully, the list of the UI is the list of the server, also when
\* requests overlapped
C28_UiMatchesServer == AllSucceeded => uiTodos = todos

\* C29: submitting an empty or whitespace-only input sets the error, sends
\* nothing and leaves the list; every text sent is trimmed and not empty,
\* and the backend answers no add of the UI with 400
C29_UiValidatesText ==
    /\ [][(addTodo /\ Trim(uiNewTodo) = <<>>) =>
              /\ uiError' = "Please enter a todo item"
              /\ calls' = calls
              /\ uiTodos' = uiTodos
              /\ todos' = todos]_vars
    /\ [](\A c \in 1..Len(calls) :
             calls[c].kind = "add" =>
                 /\ calls[c].text # <<>>
                 /\ Trim(calls[c].text) = calls[c].text
                 /\ ~InvalidText(JSString(calls[c].text))
                 /\ calls[c].stage = "answered" =>
                        calls[c].response.status = 201)

\* C29 witness: after an add that the backend stored, a whitespace-only
\* input was submitted and set the error
C29_Witness ==
    /\ uiError = "Please enter a todo item"
    /\ uiNewTodo = <<" ">>
    /\ Len(uiTodos) = 1
    /\ uiTodos = todos
    /\ \E c \in 1..Len(calls) : calls[c].kind = "add" /\ calls[c].ok

\* C30: the error message and the success message are never both set
C30_OneMessageAtATime == ~(uiError # null /\ uiSuccess # null)

\* the messages a delete answered 204 and a later delete answered 404 leave
C30_AfterTwoDeletes ==
    /\ uiSuccess = "Todo deleted successfully!"
    /\ uiError = "Failed to delete todo"

====
